---- MODULE Spec2Model ----
(***************************************************************************)
(* Model of the report pipeline of wla_trends (src/generate_report.py):    *)
(* get_data (load and clean), analyze_data (the insights), create_report   *)
(* (the document) and the __main__ driver that sequences them.             *)
(*                                                                         *)
(* Representation.                                                         *)
(*  - A Python string is a sequence of one-character strings.              *)
(*  - A cell of the raw result set is a record [k, s, n]: k = "str" (text  *)
(*    s), k = "num" (number n) or k = "null" (SQL NULL / NaN / NaT).       *)
(*  - A timestamp of the month column is an integer count of calendar      *)
(*    months, year * 12 + (month - 1).                                     *)
(*  - A float is an exact fraction <<n, d>> in lowest terms with d >= 0;   *)
(*    d = 0 holds the IEEE specials numpy division produces: <<1,0>> is    *)
(*    inf, <<-1,0>> is -inf and <<0,0>> is NaN.  Rounding error of binary  *)
(*    floating point is not modelled.                                      *)
(*  - pandas calls are modelled by their documented contract.  sort_values *)
(*    is called with its default kind ("quicksort"), which the pandas      *)
(*    documentation declares not stable: the order it leaves rows with     *)
(*    equal keys in is a property of the installed build, the variable     *)
(*    build.  nlargest / nsmallest are called with their default           *)
(*    keep = "first", documented to prioritise the first occurrences.      *)
(***************************************************************************)
EXTENDS Integers, Sequences, FiniteSets, TLC

VARIABLES
    pc,        \* position of the running script
    build,     \* how the installed quicksort orders equal keys
    store,     \* rows of master_data, in the order the query returns them
    df,        \* the DataFrame: [columns, rows]
    loaded,    \* the DataFrame as the last load / call received it
    insights,  \* the dictionary analyze_data returned last
    prior,     \* the dictionary the call before that returned
    report,    \* the PDF written
    outcome,   \* how the script ended
    trace      \* the functions called so far, in order

vars == <<pc, build, store, df, loaded, insights, prior, report, outcome, trace>>

(***************************************************************************)
(* Bounds of the model.                                                    *)
(***************************************************************************)
MaxRaw == 2      \* rows the store returns (driver specification)
MaxRows == 2     \* rows of a canonical table (analysis specification)
MaxStates == 6   \* states of a wide canonical table
MaxPad == 1      \* blanks around a category label
MaxGap == 2      \* blanks on either side of the dash of a category label
MaxClock == 2    \* distinct readings of datetime.now()

(***************************************************************************)
(* Python strings.                                                         *)
(***************************************************************************)
\* The sequence f with every element evaluated, once.
List(f) == f \o <<>>

Lowers == <<"a","b","c","d","e","f","g","h","i","j","k","l","m",
            "n","o","p","q","r","s","t","u","v","w","x","y","z">>
Uppers == <<"A","B","C","D","E","F","G","H","I","J","K","L","M",
            "N","O","P","Q","R","S","T","U","V","W","X","Y","Z">>
Digits == <<"0","1","2","3","4","5","6","7","8","9">>

IsUpper(c) == \E i \in 1..Len(Uppers) : Uppers[i] = c
IsLower(c) == \E i \in 1..Len(Lowers) : Lowers[i] = c
IsAlpha(c) == IsUpper(c) \/ IsLower(c)
IsDigit(c) == \E i \in 1..Len(Digits) : Digits[i] = c
IsSpace(c) == c \in {" ", "\t"}

ToLowerChar(c) ==
    IF IsUpper(c) THEN Lowers[CHOOSE i \in 1..Len(Uppers) : Uppers[i] = c] ELSE c
ToUpperChar(c) ==
    IF IsLower(c) THEN Uppers[CHOOSE i \in 1..Len(Lowers) : Lowers[i] = c] ELSE c
DigitValue(c) == (CHOOSE i \in 1..Len(Digits) : Digits[i] = c) - 1

\* Code point order of the characters used: blank, '-', '/', digits, upper, lower.
Ord(c) ==
    IF c = "\t" THEN 0
    ELSE IF c = " " THEN 1
    ELSE IF c = "-" THEN 2
    ELSE IF c = "/" THEN 3
    ELSE IF IsDigit(c) THEN 10 + DigitValue(c)
    ELSE IF IsUpper(c) THEN 20 + (CHOOSE i \in 1..Len(Uppers) : Uppers[i] = c)
    ELSE 50 + (CHOOSE i \in 1..Len(Lowers) : Lowers[i] = c)

\* str < str: lexicographic by code point.
StrLess(a, b) ==
    \E i \in 1..(Len(b)) :
        /\ \A j \in 1..(i - 1) : j <= Len(a) /\ a[j] = b[j]
        /\ \/ i = Len(a) + 1
           \/ i <= Len(a) /\ Ord(a[i]) < Ord(b[i])

\* str.strip(): leading and trailing whitespace removed.
StrStrip(s) ==
    LET keep == {i \in 1..Len(s) : ~IsSpace(s[i])}
    IN  IF keep = {} THEN <<>>
        ELSE SubSeq(s, CHOOSE i \in keep : \A j \in keep : i <= j,
                       CHOOSE i \in keep : \A j \in keep : j <= i)

\* str.lower().
StrLower(s) == List([i \in 1..Len(s) |-> ToLowerChar(s[i])])

\* str.title(): a letter that starts a run of letters is upper-cased, the
\* other letters are lower-cased.
StrTitle(s) ==
    List([i \in 1..Len(s) |->
        IF ~IsAlpha(s[i]) THEN s[i]
        ELSE IF i = 1 \/ ~IsAlpha(s[i - 1]) THEN ToUpperChar(s[i])
        ELSE ToLowerChar(s[i])])

\* str.capitalize(): first character upper-cased, the rest lower-cased.
StrCapitalize(s) ==
    List([i \in 1..Len(s) |-> IF i = 1 THEN ToUpperChar(s[i]) ELSE ToLowerChar(s[i])])

(***************************************************************************)
(* Cells of the raw result set.                                            *)
(***************************************************************************)
Str(s) == [k |-> "str", s |-> s, n |-> 0]
Num(n) == [k |-> "num", s |-> <<>>, n |-> n]
Null == [k |-> "null", s |-> <<>>, n |-> 0]

IsNull(c) == c.k = "null"

(***************************************************************************)
(* Floats, as fractions <<n, d>> with the IEEE specials at d = 0.          *)
(***************************************************************************)
Abs(x) == IF x < 0 THEN 0 - x ELSE x
Sign(x) == IF x < 0 THEN 0 - 1 ELSE IF x > 0 THEN 1 ELSE 0

RECURSIVE GCD(_, _)
GCD(a, b) == IF b = 0 THEN a ELSE GCD(b, a % b)

Frac(n, d) ==
    IF d = 0 THEN <<Sign(n), 0>>
    ELSE LET g == GCD(Abs(n), Abs(d))
             s == Sign(d)
         IN  <<(s * n) \div g, (s * d) \div g>>

FromInt(n) == <<n, 1>>
IsNaN(x) == x = <<0, 0>>
IsFinite(x) == x[2] # 0

FSub(a, b) == Frac(a[1] * b[2] - b[1] * a[2], a[2] * b[2])
FMul(a, b) == Frac(a[1] * b[1], a[2] * b[2])
\* numpy float division: x / 0 is inf, -inf or NaN, never an exception.
FDiv(a, b) == Frac(a[1] * b[2], a[2] * b[1])

\* a < b on floats; every comparison with NaN is false.
FLess(a, b) ==
    IF IsNaN(a) \/ IsNaN(b) THEN FALSE
    ELSE IF a[2] = 0 /\ b[2] = 0 THEN a[1] < b[1]
    ELSE a[1] * b[2] < b[1] * a[2]

(***************************************************************************)
(* get_data: the cleaning steps, column by column.                         *)
(***************************************************************************)
Columns == <<"state", "month", "pop_group", "avg">>

\* A date string "YYYY-MM" is the only text the model's store holds that
\* pd.to_datetime can parse.
IsDateText(s) ==
    /\ Len(s) = 7
    /\ s[5] = "-"
    /\ \A i \in {1, 2, 3, 4, 6, 7} : IsDigit(s[i])
    /\ 10 * DigitValue(s[6]) + DigitValue(s[7]) \in 1..12

ParseDate(s) ==
    (1000 * DigitValue(s[1]) + 100 * DigitValue(s[2]) + 10 * DigitValue(s[3])
        + DigitValue(s[4])) * 12
    + (10 * DigitValue(s[6]) + DigitValue(s[7])) - 1

\* pd.to_datetime(df['month']) has no errors= argument: one value that does
\* not parse raises and the whole conversion fails.
Unparsable(c) == c.k = "str" /\ ~IsDateText(c.s)

\* Variant: the conversion called with errors='coerce', which never raises.
ToDatetimeCoerces(rows) == FALSE

ToDatetimeRaises(rows) == \E i \in 1..Len(rows) : Unparsable(rows[i].month)

\* A date object stays, a date string is parsed, NULL becomes NaT.  (Text
\* that does not parse never gets here: the conversion has raised.)
ToDatetime(c) ==
    IF c.k = "str" THEN (IF IsDateText(c.s) THEN Num(ParseDate(c.s)) ELSE Null)
    ELSE c

\* df['state'].str.strip().str.title(); a value that is not text becomes NaN.
CleanState(c) ==
    IF c.k = "str" THEN Str(StrTitle(StrStrip(c.s))) ELSE Null

Alias == <<"s", " ", "-", " ", "u", "r", "b", "a", "n">>
Canonical == <<"s", "-", "u", "r", "b", "a", "n">>

\* Series.replace({'s - urban': 's-urban'}): a value equal to the key is
\* replaced, every other value is kept.
ReplaceAlias(s) == IF s = Alias THEN Canonical ELSE s

\* Variant: the chain without .str.strip().
NormalizeLabelUnstripped(s) == ReplaceAlias(StrLower(s))

\* The label as the cleaning leaves it.
NormalizeLabel(s) == ReplaceAlias(StrLower(StrStrip(s)))

\* df['pop_group'].str.strip().str.lower().replace({...}).
CleanPopGroup(c) ==
    IF c.k = "str" THEN Str(NormalizeLabel(c.s)) ELSE Null

\* Text that pd.to_numeric reads as a number: digits, with an optional sign.
IsNumberText(s) ==
    LET body == IF Len(s) > 0 /\ s[1] = "-" THEN Tail(s) ELSE s
    IN  Len(body) > 0 /\ \A i \in 1..Len(body) : IsDigit(body[i])

RECURSIVE DigitsValue(_)
DigitsValue(s) ==
    IF s = <<>> THEN 0
    ELSE 10 * DigitsValue(SubSeq(s, 1, Len(s) - 1)) + DigitValue(s[Len(s)])

ParseNumber(s) ==
    IF s[1] = "-" THEN 0 - DigitsValue(Tail(s)) ELSE DigitsValue(s)

\* pd.to_numeric(df['avg'], errors='coerce'): what does not convert is NaN.
ToNumeric(c) ==
    IF c.k = "num" THEN c
    ELSE IF c.k = "str" /\ IsNumberText(c.s) THEN Num(ParseNumber(c.s))
    ELSE Null

\* Lines 22-25: the four column assignments.
CleanRow(r) ==
    [state |-> CleanState(r.state), month |-> ToDatetime(r.month),
     pop_group |-> CleanPopGroup(r.pop_group), avg |-> ToNumeric(r.avg)]

HasNull(r) ==
    IsNull(r.state) \/ IsNull(r.month) \/ IsNull(r.pop_group) \/ IsNull(r.avg)

\* df.dropna(inplace=True): every row with a missing value in any column goes.
RECURSIVE DropNa(_)
DropNa(rows) ==
    IF rows = <<>> THEN <<>>
    ELSE IF HasNull(Head(rows)) THEN DropNa(Tail(rows))
    ELSE <<Head(rows)>> \o DropNa(Tail(rows))

\* The values of a row without missing cells.
Plain(r) ==
    [state |-> r.state.s, month |-> r.month.n,
     pop_group |-> r.pop_group.s, avg |-> r.avg.n]

\* The rows that survive the cleaning, in the order the store returned them.
Survivors(rows) ==
    LET kept == DropNa(List([i \in 1..Len(rows) |-> CleanRow(rows[i])]))
    IN  List([i \in 1..Len(kept) |-> Plain(kept[i])])

(***************************************************************************)
(* Sorting.  ArgSort gives the positions of keys in sorted order.  Equal   *)
(* keys: a stable sort ("mergesort") keeps their order; the default        *)
(* "quicksort" leaves them in the order the installed build produces,      *)
(* "keeps" or "swaps".  A descending sort is, as in pandas' nargsort, the  *)
(* ascending sort of the reversed keys, reversed.                          *)
(***************************************************************************)
Builds == {"keeps", "swaps"}

\* The key at position i is placed before the key at position j.
Before(keys, tie, i, j) ==
    \/ FLess(keys[i], keys[j])
    \/ /\ ~FLess(keys[j], keys[i])
       /\ IF tie = "keeps" THEN i < j ELSE j < i

ArgSortAsc(keys, tie) ==
    LET n == Len(keys)
        rank(i) == 1 + Cardinality({j \in 1..n : j # i /\ Before(keys, tie, j, i)})
    IN  List([r \in 1..n |-> CHOOSE i \in 1..n : rank(i) = r])

Reverse(s) == List([i \in 1..Len(s) |-> s[Len(s) + 1 - i]])

\* The positions of the keys (numbers, none NaN) in sorted order.
ArgSort(keys, tie, ascending) ==
    IF ascending THEN ArgSortAsc(keys, tie)
    ELSE LET n == Len(keys)
             back == ArgSortAsc(Reverse(keys), tie)
         IN  Reverse(List([r \in 1..n |-> n + 1 - back[r]]))

Take(rows, idx) == List([r \in 1..Len(idx) |-> rows[idx[r]]])

\* The month column as sort keys.
MonthKeys(rows) == List([i \in 1..Len(rows) |-> FromInt(rows[i].month)])

\* Variant: the sort_values call left out.
SortByMonthSkipped(rows, tie) == rows

\* df.sort_values(by='month', inplace=True): kind defaults to "quicksort".
SortByMonth(rows, tie) ==
    Take(rows, ArgSort(MonthKeys(rows), tie, TRUE))

\* get_data, when no date fails to parse.
GetDataResult(rows, tie) ==
    [columns |-> Columns, rows |-> SortByMonth(Survivors(rows), tie)]

(***************************************************************************)
(* Aggregates of a column.                                                 *)
(***************************************************************************)
RECURSIVE Sum(_)
Sum(xs) == IF xs = <<>> THEN 0 ELSE Head(xs) + Sum(Tail(xs))

\* Series.mean().
Mean(xs) == Frac(Sum(xs), Len(xs))

\* Series.min() / Series.max() of integers.
MinOf(xs) == CHOOSE x \in {xs[i] : i \in 1..Len(xs)} : \A i \in 1..Len(xs) : x <= xs[i]
MaxOf(xs) == CHOOSE x \in {xs[i] : i \in 1..Len(xs)} : \A i \in 1..Len(xs) : x >= xs[i]

\* The square of Series.std() (ddof = 1): sum((x - mean)^2) / (n - 1), which
\* is 0 / 0 = NaN for a single value.
SampleVariance(xs) ==
    LET n == Len(xs)
    IN  Frac(n * Sum(List([i \in 1..n |-> xs[i] * xs[i]])) - Sum(xs) * Sum(xs), n * (n - 1))

(***************************************************************************)
(* analyze_data.                                                           *)
(***************************************************************************)
Months == <<"Jan", "Feb", "Mar", "Apr", "May", "Jun",
            "Jul", "Aug", "Sep", "Oct", "Nov", "Dec">>

\* Timestamp.strftime('%b %Y').
FmtMonth(m) == <<Months[(m % 12) + 1], m \div 12>>

Avgs(rows) == List([i \in 1..Len(rows) |-> rows[i].avg])
MonthsOf(rows) == List([i \in 1..Len(rows) |-> rows[i].month])

RECURSIVE Filter(_, _, _)
\* The rows whose column col holds v, in table order.
Filter(rows, col, v) ==
    IF rows = <<>> THEN <<>>
    ELSE IF Head(rows)[col] = v THEN <<Head(rows)>> \o Filter(Tail(rows), col, v)
    ELSE Filter(Tail(rows), col, v)

\* The keys of df.groupby(col): the distinct values, sorted ascending.
GroupKeys(rows, col) ==
    LET ks == {rows[i][col] : i \in 1..Len(rows)}
        rank(k) == 1 + Cardinality({x \in ks : StrLess(x, k)})
    IN  List([r \in 1..Cardinality(ks) |-> CHOOSE k \in ks : rank(k) = r])

\* insights['date_range']
DateRange(d) ==
    [from |-> FmtMonth(MinOf(MonthsOf(d.rows))), to |-> FmtMonth(MaxOf(MonthsOf(d.rows)))]

\* Variant: df.size (the number of cells) in place of len(df).
TotalCells(d) == Len(d.rows) * Len(d.columns)

\* insights['total_records'] = len(df)
TotalRecords(d) == Len(d.rows)

\* insights['overall_avg']
OverallAvg(d) == Mean(Avgs(d.rows))

RECURSIVE ArgMaxFrom(_, _, _)
\* Scan from position i with the best position so far: a later value wins
\* only when it is strictly greater.
ArgMaxFrom(xs, i, best) ==
    IF i > Len(xs) THEN best
    ELSE ArgMaxFrom(xs, i + 1, IF xs[i] > xs[best] THEN i ELSE best)

RECURSIVE ArgMaxLastFrom(_, _, _)
ArgMaxLastFrom(xs, i, best) ==
    IF i > Len(xs) THEN best
    ELSE ArgMaxLastFrom(xs, i + 1, IF xs[i] >= xs[best] THEN i ELSE best)

\* Variant: the position of the last occurrence of the maximum.
IdxMaxLast(xs) == ArgMaxLastFrom(xs, 2, 1)

\* df['avg'].idxmax(): the position of the first occurrence of the maximum.
IdxMax(xs) == ArgMaxFrom(xs, 2, 1)

\* insights['peak_performance']
PeakPerformance(d) ==
    LET peak_perf == d.rows[IdxMax(Avgs(d.rows))]
    IN  [value |-> FromInt(peak_perf.avg),
         details |-> [pop_group |-> StrCapitalize(peak_perf.pop_group),
                      state |-> peak_perf.state,
                      month |-> FmtMonth(peak_perf.month)]]

\* insights['pop_group_table']: one row per category, then
\* sort_values(by='Mean Avg', ascending=False) with the default kind.
PopGroupTable(d, tie) ==
    LET ks == GroupKeys(d.rows, "pop_group")
        agg == List([i \in 1..Len(ks) |->
                  LET xs == Avgs(Filter(d.rows, "pop_group", ks[i]))
                  IN  [group |-> ks[i], mean |-> Mean(xs),
                       min |-> FromInt(MinOf(xs)), max |-> FromInt(MaxOf(xs)),
                       variance |-> SampleVariance(xs)]])
    IN  Take(agg, ArgSort(List([i \in 1..Len(agg) |-> agg[i].mean]), tie, FALSE))

\* state_analysis: one row per state, in ascending order of the state name.
StateAnalysis(d) ==
    LET ks == GroupKeys(d.rows, "state")
    IN  List([i \in 1..Len(ks) |->
            LET xs == Avgs(Filter(d.rows, "state", ks[i]))
            IN  [state |-> ks[i], mean |-> Mean(xs), count |-> Len(xs)]])

RECURSIVE Positions(_, _, _)
Positions(xs, i, wantNaN) ==
    IF i > Len(xs) THEN <<>>
    ELSE IF IsNaN(xs[i]) = wantNaN THEN <<i>> \o Positions(xs, i + 1, wantNaN)
    ELSE Positions(xs, i + 1, wantNaN)

\* Variant: keep = 'last', the last occurrences of equal values first.
NSelectLast(xs, n, largest) ==
    LET good == Positions(xs, 1, FALSE)
        nans == Positions(xs, 1, TRUE)
        order == ArgSort(List([i \in 1..Len(good) |-> xs[good[i]]]), "swaps", ~largest)
        all == List([i \in 1..Len(good) |-> good[order[i]]]) \o nans
    IN  SubSeq(all, 1, IF n < Len(all) THEN n ELSE Len(all))

\* The positions nlargest (largest) / nsmallest (~largest) select from the
\* values xs with keep = 'first': ordered by value, equal values in order of
\* occurrence, NaN after every number; the first n of them.
NSelect(xs, n, largest) ==
    LET good == Positions(xs, 1, FALSE)
        nans == Positions(xs, 1, TRUE)
        order == ArgSort(List([i \in 1..Len(good) |-> xs[good[i]]]), "keeps", ~largest)
        all == List([i \in 1..Len(good) |-> good[order[i]]]) \o nans
    IN  SubSeq(all, 1, IF n < Len(all) THEN n ELSE Len(all))

TopN == 5

\* insights['top_5_states'] = state_analysis.nlargest(5, 'Mean Avg')
Top5States(d) ==
    LET sa == StateAnalysis(d)
    IN  Take(sa, NSelect(List([i \in 1..Len(sa) |-> sa[i].mean]), TopN, TRUE))

\* insights['bottom_5_states'] = state_analysis.nsmallest(5, 'Mean Avg')
Bottom5States(d) ==
    LET sa == StateAnalysis(d)
    IN  Take(sa, NSelect(List([i \in 1..Len(sa) |-> sa[i].mean]), TopN, FALSE))

Hundred == FromInt(100)

\* Variant: the division without the "if first_month_avg" guard.
OverallGrowthUnguarded(d) ==
    LET ms == MonthsOf(d.rows)
        first_month_avg == Mean(Avgs(Filter(d.rows, "month", MinOf(ms))))
        last_month_avg == Mean(Avgs(Filter(d.rows, "month", MaxOf(ms))))
    IN  FMul(FDiv(FSub(last_month_avg, first_month_avg), first_month_avg), Hundred)

\* insights['overall_growth']
OverallGrowth(d) ==
    LET ms == MonthsOf(d.rows)
        first_month_avg == Mean(Avgs(Filter(d.rows, "month", MinOf(ms))))
        last_month_avg == Mean(Avgs(Filter(d.rows, "month", MaxOf(ms))))
    IN  IF first_month_avg # FromInt(0)
        THEN FMul(FDiv(FSub(last_month_avg, first_month_avg), first_month_avg), Hundred)
        ELSE FromInt(0)

MinObservations == 2

\* Variant: the filter on the number of rows left out.
ValidStatesUnfiltered(d) == {d.rows[i].state : i \in 1..Len(d.rows)}

\* valid_states: the states with at least 2 rows.
ValidStates(d) ==
    {s \in {d.rows[i].state : i \in 1..Len(d.rows)} :
        Len(Filter(d.rows, "state", s)) >= MinObservations}

RECURSIVE IsIn(_, _)
\* df[df['state'].isin(valid_states)]
IsIn(rows, valid) ==
    IF rows = <<>> THEN <<>>
    ELSE IF Head(rows).state \in valid THEN <<Head(rows)>> \o IsIn(Tail(rows), valid)
    ELSE IsIn(Tail(rows), valid)

\* The lambda of line 72 on one state's rows x: x.sort_values('month') with
\* the default kind, then (last - first) / first * 100.
StateGrowth(x, tie) ==
    LET sorted == Take(x, ArgSort(MonthKeys(x), tie, TRUE))
        first == FromInt(sorted[1].avg)
        last == FromInt(sorted[Len(sorted)].avg)
    IN  FMul(FDiv(FSub(last, first), first), Hundred)

NotAvailable == <<"N", "/", "A">>

\* insights['most_improved_state'].  A state whose earliest value is 0 has
\* growth inf, -inf or NaN; nlargest(1) ranks NaN after every number, so the
\* NaN row is returned only when every growth is NaN.
MostImprovedState(d, tie) ==
    LET df_valid_growth == IsIn(d.rows, ValidStates(d))
    IN  IF df_valid_growth # <<>>
        THEN LET ks == GroupKeys(df_valid_growth, "state")
                 state_growth ==
                    List([i \in 1..Len(ks) |->
                        [state |-> ks[i],
                         growth |-> StateGrowth(Filter(df_valid_growth, "state", ks[i]), tie)]])
                 pick == NSelect(List([i \in 1..Len(ks) |-> state_growth[i].growth]), 1, TRUE)
             IN  state_growth[pick[1]]
        ELSE [state |-> NotAvailable, growth |-> FromInt(0)]

\* The dictionary analyze_data returns.
Insights(d, tie) ==
    [date_range |-> DateRange(d),
     total_records |-> TotalRecords(d),
     overall_avg |-> OverallAvg(d),
     peak_performance |-> PeakPerformance(d),
     pop_group_table |-> PopGroupTable(d, tie),
     top_5_states |-> Top5States(d),
     bottom_5_states |-> Bottom5States(d),
     overall_growth |-> OverallGrowth(d),
     most_improved_state |-> MostImprovedState(d, tie)]

\* df['year'] = df['month'].dt.year: the assignment adds the column to the
\* caller's DataFrame, or overwrites it when it is already there.
WithYear(d) ==
    [columns |-> IF \E i \in 1..Len(d.columns) : d.columns[i] = "year"
                 THEN d.columns ELSE Append(d.columns, "year"),
     rows |-> List([i \in 1..Len(d.rows) |->
                 [state |-> d.rows[i].state, month |-> d.rows[i].month,
                  pop_group |-> d.rows[i].pop_group, avg |-> d.rows[i].avg,
                  year |-> d.rows[i].month \div 12]])]

(***************************************************************************)
(* create_report: what is handed to the PDF primitives.                    *)
(***************************************************************************)
REPORT_TITLE == "WLA Historical Performance Analysis"
AUTHOR == "Business Intelligence Team"

\* n / d (d > 0) rounded to an integer, a tie going to the even neighbour.
RoundHalfEven(n, d) ==
    LET q == n \div d
        r == n % d
    IN  IF 2 * r < d THEN q
        ELSE IF 2 * r > d THEN q + 1
        ELSE IF q % 2 = 0 THEN q ELSE q + 1

\* f"{x:.2f}": the number of hundredths shown, or the text of a special.
Fmt2(x) ==
    IF IsNaN(x) THEN [text |-> "nan", hundredths |-> 0]
    ELSE IF ~IsFinite(x) THEN [text |-> IF x[1] > 0 THEN "inf" ELSE "-inf", hundredths |-> 0]
    ELSE [text |-> "fixed", hundredths |-> RoundHalfEven(100 * x[1], x[2])]

\* f"{std:.2f}" of the standard deviation whose square is v.
Fmt2Root(v) ==
    IF IsNaN(v) THEN [text |-> "nan", hundredths |-> 0]
    ELSE [text |-> "fixed",
          hundredths |->
            CHOOSE h \in 0..(100 * (v[1] + 1)) :
                /\ h = 0 \/ (2 * h - 1) * (2 * h - 1) * v[2] <= 40000 * v[1]
                /\ 40000 * v[1] < (2 * h + 1) * (2 * h + 1) * v[2]]

Placeholder == "No data available for this section."

\* PDF.simple_table: the placeholder for an empty frame, else the header
\* cells and one line of cells per row.
SimpleTable(header, lines) ==
    IF lines = <<>> THEN [header |-> <<>>, lines |-> <<>>, note |-> Placeholder]
    ELSE [header |-> header, lines |-> lines, note |-> ""]

PopGroupLines(tbl) ==
    List([i \in 1..Len(tbl) |->
        [label |-> tbl[i].group, mean |-> Fmt2(tbl[i].mean), min |-> Fmt2(tbl[i].min),
         max |-> Fmt2(tbl[i].max), std |-> Fmt2Root(tbl[i].variance)]])

StateLines(tbl) ==
    List([i \in 1..Len(tbl) |->
        [label |-> tbl[i].state, mean |-> Fmt2(tbl[i].mean), count |-> tbl[i].count]])

StateHeader == <<"State", "Mean Avg", "Record Count">>
PopGroupHeader == <<"POP Group", "Mean Avg", "Min Avg", "Max Avg", "Volatility (Std Dev)">>

\* The document create_report writes for the insights ins under the name
\* report_filename, stamped with the clock reading ts.
Document(ins, ts) ==
    [filename |-> [prefix |-> "WLA_Historical_Report_", timestamp |-> ts, suffix |-> ".pdf"],
     title |-> REPORT_TITLE,
     author |-> AUTHOR,
     kpis |-> [range |-> ins.date_range,
               overall_avg |-> Fmt2(ins.overall_avg),
               peak |-> [value |-> Fmt2(ins.peak_performance.value),
                         details |-> ins.peak_performance.details],
               overall_growth |-> Fmt2(ins.overall_growth),
               most_improved |-> [state |-> ins.most_improved_state.state,
                                  growth |-> Fmt2(ins.most_improved_state.growth)]],
     pop_group |-> SimpleTable(PopGroupHeader, PopGroupLines(ins.pop_group_table)),
     top_5 |-> SimpleTable(StateHeader, StateLines(ins.top_5_states)),
     bottom_5 |-> SimpleTable(StateHeader, StateLines(ins.bottom_5_states))]

(***************************************************************************)
(* The script: __main__ of generate_report.py.                             *)
(***************************************************************************)
None == [none |-> TRUE]
NoFrame == [columns |-> <<>>, rows |-> <<>>]

\* Variant: the emptiness test left out of the driver.
DfEmptyIgnored(d) == FALSE

\* DataFrame.empty, for a frame that has columns: it has no row.
DfEmpty(d) == Len(d.rows) = 0

\* df = get_data().  A month that does not parse ends the script with the
\* exception; df is never bound.
GetData ==
    /\ pc = "get_data"
    /\ trace' = Append(trace, "get_data")
    /\ IF ToDatetimeRaises(store)
       THEN /\ pc' = "exit"
            /\ outcome' = "error"
            /\ UNCHANGED <<df, loaded>>
       ELSE /\ pc' = "check"
            /\ df' = GetDataResult(store, build)
            /\ loaded' = df'
            /\ UNCHANGED outcome
    /\ UNCHANGED <<build, store, insights, prior, report>>

\* One call analyze_data(df), continuing at next.  On a frame without rows
\* df['month'].min() is NaT and NaT.strftime raises.
AnalyzeCall(next) ==
    /\ trace' = Append(trace, "analyze_data")
    /\ IF Len(df.rows) = 0
       THEN /\ pc' = "exit"
            /\ outcome' = "error"
            /\ UNCHANGED <<df, insights, prior>>
       ELSE /\ pc' = next
            /\ insights' = Insights(df, build)
            /\ prior' = insights
            /\ df' = WithYear(df)
            /\ UNCHANGED outcome
    /\ UNCHANGED <<build, store, loaded, report>>

\* Lines 183-184: if not df.empty: insights_data = analyze_data(df)
AnalyzeData ==
    /\ pc = "check"
    /\ ~DfEmpty(df)
    /\ AnalyzeCall("create_report")

\* Lines 185-187: the file name from the clock, then create_report.
CreateReport ==
    /\ pc = "create_report"
    /\ \E ts \in 1..MaxClock : report' = Document(insights, ts)
    /\ trace' = Append(trace, "create_report")
    /\ pc' = "exit"
    /\ outcome' = "report"
    /\ UNCHANGED <<build, store, df, loaded, insights, prior>>

\* Lines 188-189: print("No data found. Report cannot be generated.")
NoData ==
    /\ pc = "check"
    /\ DfEmpty(df)
    /\ pc' = "exit"
    /\ outcome' = "no_data"
    /\ UNCHANGED <<build, store, df, loaded, insights, prior, report, trace>>

Next == GetData \/ AnalyzeData \/ CreateReport \/ NoData

(***************************************************************************)
(* Inputs.                                                                 *)
(***************************************************************************)
Dec2024 == 2024 * 12 + 11
Jan2025 == 2025 * 12

RECURSIVE SeqsUpTo(_, _)
\* The sequences over S of length at most n.
SeqsUpTo(S, n) ==
    IF n = 0 THEN {<<>>}
    ELSE LET shorter == SeqsUpTo(S, n - 1)
         IN  shorter \cup {Append(q, x) : q \in {s \in shorter : Len(s) = n - 1}, x \in S}

RawStates == {Str(<<" ", "o", "h", "i", "o">>), Str(<<"U", "T", "A", "H">>)}
RawMonths == {Num(Dec2024), Str(<<"2", "0", "2", "5", "-", "0", "1">>),
              Str(<<"n", "/", "a">>), Null}
RawLabels == {Str(<<"S", " ", "-", " ", "U", "r", "b", "a", "n">>),
              Str(<<"R", "u", "r", "a", "l", " ">>)}
RawAvgs == {Num(1), Str(<<"2">>), Str(<<"x">>)}

RawRows == [state : RawStates, month : RawMonths, pop_group : RawLabels, avg : RawAvgs]

Start ==
    /\ pc = "get_data"
    /\ build \in Builds
    /\ df = NoFrame
    /\ loaded = NoFrame
    /\ insights = None
    /\ prior = None
    /\ report = None
    /\ outcome = "running"
    /\ trace = <<>>

\* One run of the script against a store of at most MaxRaw rows.
Init ==
    /\ store \in SeqsUpTo(RawRows, MaxRaw)
    /\ Start

Spec == Init /\ [][Next]_vars

(***************************************************************************)
(* analyze_data called on a canonical table, and called again on the same  *)
(* DataFrame object.                                                       *)
(***************************************************************************)
FirstCall ==
    /\ pc = "call"
    /\ AnalyzeCall("again")

SecondCall ==
    /\ pc = "again"
    /\ AnalyzeCall("returned")

NextAnalyze == FirstCall \/ SecondCall

Ohio == <<"O", "h", "i", "o">>
Utah == <<"U", "t", "a", "h">>
Rural == <<"r", "u", "r", "a", "l">>

CanonRows ==
    [state : {Ohio, Utah}, month : {Dec2024, Jan2025},
     pop_group : {Rural, Canonical}, avg : 0..2]

SortedByMonth(rows) ==
    \A i \in 1..Len(rows) : \A j \in 1..Len(rows) :
        i < j => rows[i].month <= rows[j].month

\* Every canonical table of at most MaxRows rows over CanonRows.
SmallTables ==
    {t \in SeqsUpTo(CanonRows, MaxRows) : t # <<>> /\ SortedByMonth(t)}

\* State names, in ascending order.
StateNames ==
    << <<"A", "s", "s", "a", "m">>, <<"B", "i", "h", "a", "r">>, <<"G", "o", "a">>,
       <<"K", "e", "r", "a", "l", "a">>, Ohio, <<"P", "u", "n", "j", "a", "b">>,
       <<"S", "i", "k", "k", "i", "m">>, Utah >>

\* What one state of a wide table has: nothing, one value, or two values in
\* consecutive months.
ObsOptions == {<<>>, <<3>>, <<1, 2>>}

RECURSIVE WideRows(_, _, _)
\* The k-th observations of the states i, i - 1, ..., 1: the table lists the
\* states in descending order of name within a month.
WideRows(f, i, k) ==
    IF i = 0 THEN <<>>
    ELSE (IF Len(f[i]) >= k
          THEN <<[state |-> StateNames[i], month |-> Dec2024 + k - 1,
                  pop_group |-> Rural, avg |-> f[i][k]]>>
          ELSE <<>>) \o WideRows(f, i - 1, k)

\* The canonical tables over up to MaxStates states, one per choice of what
\* each state has.
WideTables ==
    {WideRows(f, MaxStates, 1) \o WideRows(f, MaxStates, 2) :
        f \in [1..MaxStates -> ObsOptions]} \ {<<>>}

InitAnalyze ==
    /\ pc = "call"
    /\ build \in Builds
    /\ store = <<>>
    /\ \E t \in SmallTables \cup WideTables : df = [columns |-> Columns, rows |-> t]
    /\ loaded = df
    /\ insights = None
    /\ prior = None
    /\ report = None
    /\ outcome = "running"
    /\ trace = <<>>

SpecAnalyze == InitAnalyze /\ [][NextAnalyze]_vars

(***************************************************************************)
(* The script run against a store of one row, over the spellings of a      *)
(* category label.                                                         *)
(***************************************************************************)
Blanks(n) == List([i \in 1..n |-> " "])

\* The spellings of "s - urban": any case, up to MaxGap blanks on each side of
\* the dash, up to MaxPad blanks around.
AliasSpellings ==
    {Blanks(a) \o <<s>> \o Blanks(g) \o <<"-">> \o Blanks(h) \o u \o Blanks(b) :
        a \in 0..MaxPad, b \in 0..MaxPad, g \in 0..MaxGap, h \in 0..MaxGap,
        s \in {"s", "S"},
        u \in {<<"u", "r", "b", "a", "n">>, <<"U", "r", "b", "a", "n">>,
               <<"U", "R", "B", "A", "N">>}}

OtherSpellings ==
    {Blanks(a) \o w \o Blanks(b) :
        a \in 0..MaxPad, b \in 0..MaxPad,
        w \in {<<"U", "r", "b", "a", "n">>, <<"R", "U", "R", "A", "L">>, Rural,
               <<"S", "e", "m", "i", " ", "U", "r", "b", "a", "n">>}}

LabelCells == {Str(l) : l \in AliasSpellings \cup OtherSpellings} \cup {Null}

InitNorm ==
    /\ \E c \in LabelCells :
          store = <<[state |-> Str(Ohio), month |-> Num(Dec2024),
                     pop_group |-> c, avg |-> Num(1)]>>
    /\ Start

SpecNorm == InitNorm /\ [][Next]_vars

(***************************************************************************)
(* Properties of the script (Spec).                                        *)
(***************************************************************************)
\* The rows of the store whose month is text that does not parse as a date.
BadMonthRows == {i \in 1..Len(store) : Unparsable(store[i].month)}

\* get_data has returned a table to the driver.
LoaderReturned == pc # "get_data" /\ BadMonthRows = {}

\* A raw row no cell of which is, or is cleaned to, a missing value.
Complete(r) ==
    /\ r.state.k = "str"
    /\ r.pop_group.k = "str"
    /\ r.month.k = "num" \/ (r.month.k = "str" /\ IsDateText(r.month.s))
    /\ r.avg.k = "num" \/ (r.avg.k = "str" /\ IsNumberText(r.avg.s))

Cleaned(r) == Plain(CleanRow(r))

\* out is the rows of raw at the positions keep, cleaned, each once, in
\* ascending order of month; with stable, rows of equal month are in the
\* order of raw.
SortedCleanRows(out, raw, keep, stable) ==
    /\ Len(out) = Cardinality(keep)
    /\ \E p \in [1..Len(out) -> keep] :
          /\ \A k \in 1..Len(out) : \A l \in 1..Len(out) : p[k] = p[l] => k = l
          /\ \A k \in 1..Len(out) : out[k] = Cleaned(raw[p[k]])
          /\ \A k \in 1..Len(out) : \A l \in 1..Len(out) :
                k < l => /\ out[k].month <= out[l].month
                         /\ (stable /\ out[k].month = out[l].month) => p[k] < p[l]

\* C1: an empty table from the Loader means analyze_data and create_report
\* are not called, no document is written and the run ends "no data" (not an
\* error); a document exists only when the loaded table is non-empty, and
\* then after get_data, analyze_data, create_report were called in that order
\* and the insights are those of the loaded table.
C1_EmptyTableMeansNoDocument ==
    /\ (LoaderReturned /\ loaded.rows = <<>>) =>
          /\ trace = <<"get_data">>
          /\ insights = None
          /\ report = None
          /\ pc \in {"check", "exit"}
          /\ pc = "exit" => outcome = "no_data"
    /\ report # None =>
          /\ LoaderReturned
          /\ loaded.rows # <<>>
          /\ trace = <<"get_data", "analyze_data", "create_report">>
          /\ insights = Insights(loaded, build)
          /\ outcome = "report"

\* The run ended "no data" although the store returned rows: all were dropped.
C1_Witness ==
    /\ pc = "exit"
    /\ outcome = "no_data"
    /\ store # <<>>
    /\ loaded.rows = <<>>

\* C7 as claimed: with rows whose month does not parse, get_data does not
\* fail and returns the canonical table of the other rows.
C7_UnparsableMonthsDropped ==
    (pc # "get_data" /\ BadMonthRows # {}) =>
        /\ outcome # "error"
        /\ SortedCleanRows(loaded.rows, store,
                           {i \in 1..Len(store) : Complete(store[i])} \ BadMonthRows, FALSE)

\* C7 as the code has it: one month value that does not parse makes get_data
\* raise, so the script ends in error with no table, no analysis and no
\* document; when every month parses get_data returns, and the rows whose avg
\* fails the numeric coercion (or that miss a value, a NULL month included)
\* are the ones dropped.
C7_UnparsableMonthRaises ==
    /\ (pc # "get_data" /\ BadMonthRows # {}) =>
          /\ pc = "exit"
          /\ outcome = "error"
          /\ df = NoFrame
          /\ loaded = NoFrame
          /\ report = None
          /\ trace = <<"get_data">>
    /\ (pc # "get_data" /\ BadMonthRows = {}) =>
          /\ outcome # "error"
          /\ Len(loaded.rows) = Cardinality({i \in 1..Len(store) : Complete(store[i])})

\* get_data raised on a store that also holds a complete row.
C7_Witness ==
    /\ pc = "exit"
    /\ outcome = "error"
    /\ BadMonthRows # {}
    /\ \E i \in 1..Len(store) : Complete(store[i])

\* C8 as claimed: the table get_data returns is the stable sort by month of
\* the rows without a missing value.
C8_StableSortOfSurvivors ==
    LoaderReturned =>
        SortedCleanRows(loaded.rows, store,
                        {i \in 1..Len(store) : Complete(store[i])}, TRUE)

\* C8 as the code has it: the table get_data returns holds exactly the rows
\* without a missing value, each once, in ascending order of month; the order
\* among rows of equal month is not fixed.
C8_SortedSurvivors ==
    LoaderReturned =>
        SortedCleanRows(loaded.rows, store,
                        {i \in 1..Len(store) : Complete(store[i])}, FALSE)

\* The sort moved a row: the store returned the later month first.
C8_Witness ==
    /\ LoaderReturned
    /\ Len(store) = 2
    /\ Len(loaded.rows) = 2
    /\ Cleaned(store[1]).month > Cleaned(store[2]).month
    /\ loaded.rows = <<Cleaned(store[2]), Cleaned(store[1])>>

(***************************************************************************)
(* Properties of the label normalisation (SpecNorm).                       *)
(***************************************************************************)
\* out is the text l without its leading and trailing blanks, lower-cased.
TrimmedLower(l, out) ==
    \E a \in 0..Len(l) :
        /\ a + Len(out) <= Len(l)
        /\ \A i \in 1..a : IsSpace(l[i])
        /\ \A i \in (a + Len(out) + 1)..Len(l) : IsSpace(l[i])
        /\ out # <<>> => ~IsSpace(l[a + 1]) /\ ~IsSpace(l[a + Len(out)])
        /\ \A i \in 1..Len(out) : out[i] = ToLowerChar(l[a + i])

\* The label the store holds and the label of the loaded row.
RawLabel == store[1].pop_group.s
LoadedLabel == loaded.rows[1].pop_group

LabelLoaded == pc # "get_data" /\ Len(store) = 1 /\ store[1].pop_group.k = "str"

\* C6 as claimed: every spelling of "s - urban" (any case, any number of
\* blanks around the dash and around the label) becomes "s-urban", every
\* other label its trimmed lowercase form, and normalising twice changes
\* nothing.
C6_EverySpellingCanonical ==
    LabelLoaded =>
        /\ RawLabel \in AliasSpellings => LoadedLabel = Canonical
        /\ RawLabel \notin AliasSpellings => TrimmedLower(RawLabel, LoadedLabel)
        /\ NormalizeLabel(LoadedLabel) = LoadedLabel

\* C6 as the code has it: a label becomes "s-urban" exactly when its trimmed
\* lowercase form is "s - urban" (one blank on each side of the dash) or
\* already "s-urban"; every other label, other spacings of the dash included,
\* becomes its trimmed lowercase form; normalising twice changes nothing.
C6_ExactAliasCanonical ==
    LabelLoaded =>
        /\ IF TrimmedLower(RawLabel, Alias) \/ TrimmedLower(RawLabel, Canonical)
           THEN LoadedLabel = Canonical
           ELSE TrimmedLower(RawLabel, LoadedLabel) /\ LoadedLabel # Canonical
        /\ NormalizeLabel(LoadedLabel) = LoadedLabel

\* " S - Urban " was loaded as "s-urban".
C6_Witness ==
    /\ LabelLoaded
    /\ RawLabel = <<" ", "S", " ", "-", " ", "U", "r", "b", "a", "n", " ">>
    /\ LoadedLabel = Canonical

(***************************************************************************)
(* Properties of analyze_data on a canonical table (SpecAnalyze).  The     *)
(* table the first call received is loaded.                                *)
(***************************************************************************)
Table == loaded.rows
Analyzed == pc \in {"again", "returned"}

StatesOf(rows) == {rows[i].state : i \in 1..Len(rows)}
RowsOfState(s) == {i \in 1..Len(Table) : Table[i].state = s}

RECURSIVE SumAt(_)
\* The sum of avg over the rows of the table at the positions P.
SumAt(P) ==
    IF P = {} THEN 0
    ELSE LET i == CHOOSE i \in P : TRUE
         IN  Table[i].avg + SumAt(P \ {i})

\* C2: the second call of analyze_data, made on the DataFrame object the
\* first call already processed, returns the same insights as the first.
C2_SecondCallSameInsights ==
    pc = "returned" => insights = prior

\* Both calls returned, the second on a frame the first had changed, for a
\* table of several rows.
C2_Witness ==
    /\ pc = "returned"
    /\ Len(Table) >= 2
    /\ df.columns # loaded.columns
    /\ prior # None

\* C3: the most improved state is never a state with exactly one row; when
\* no state has two rows it is the sentinel "N/A" with growth 0, otherwise it
\* is a state with at least two rows; in the sentinel case analyze_data does
\* not fail.
C3_MostImprovedNeverSingleObservation ==
    Analyzed =>
        LET mi == insights.most_improved_state
            valid == {s \in StatesOf(Table) : Cardinality(RowsOfState(s)) >= 2}
        IN  /\ \A s \in StatesOf(Table) : Cardinality(RowsOfState(s)) = 1 => mi.state # s
            /\ valid = {} =>
                  /\ mi = [state |-> NotAvailable, growth |-> <<0, 1>>]
                  /\ outcome # "error"
            /\ valid # {} => mi.state \in valid

\* A state with one row holds the single highest value, another state has two
\* rows, and the call returned.
C3_Witness ==
    /\ Analyzed
    /\ \E i \in 1..Len(Table) :
          /\ Cardinality(RowsOfState(Table[i].state)) = 1
          /\ \A j \in 1..Len(Table) : j # i => Table[j].avg < Table[i].avg
    /\ \E s \in StatesOf(Table) : Cardinality(RowsOfState(s)) >= 2
    /\ insights.most_improved_state.state # NotAvailable

\* C4: the peak record is the first row, in table order, among the rows whose
\* avg is the maximum of the table.
C4_PeakIsFirstMaximum ==
    Analyzed =>
        \E i \in 1..Len(Table) :
            /\ \A j \in 1..Len(Table) : Table[j].avg <= Table[i].avg
            /\ \A j \in 1..(i - 1) : Table[j].avg < Table[i].avg
            /\ insights.peak_performance.value = <<Table[i].avg, 1>>
            /\ insights.peak_performance.details.state = Table[i].state
            /\ insights.peak_performance.details.month = FmtMonth(Table[i].month)
            /\ insights.peak_performance.details.pop_group = StrCapitalize(Table[i].pop_group)

\* Two rows that differ in state, month or category tie for the maximum.
C4_Witness ==
    /\ Analyzed
    /\ \E i \in 1..Len(Table) : \E j \in 1..Len(Table) :
          /\ i < j
          /\ Table[i].avg = Table[j].avg
          /\ \A k \in 1..Len(Table) : Table[k].avg <= Table[i].avg
          /\ <<Table[i].state, Table[i].month, Table[i].pop_group>>
                # <<Table[j].state, Table[j].month, Table[j].pop_group>>

FirstMonthRows == {i \in 1..Len(Table) : \A j \in 1..Len(Table) : Table[i].month <= Table[j].month}
LastMonthRows == {i \in 1..Len(Table) : \A j \in 1..Len(Table) : Table[j].month <= Table[i].month}

\* C5: with first = the mean of avg over the rows of the minimum month and
\* last = the mean over the rows of the maximum month, overall growth is
\* (last - first) / first * 100, and it is 0 (a finite number) when first is 0.
\* Stated on the sums Sf, Sl and the row counts nf, nl of the two months:
\* growth * Sf * nl = 100 * (Sl * nf - Sf * nl).
C5_OverallGrowth ==
    Analyzed =>
        LET g == insights.overall_growth
            Sf == SumAt(FirstMonthRows)
            Sl == SumAt(LastMonthRows)
            nf == Cardinality(FirstMonthRows)
            nl == Cardinality(LastMonthRows)
        IN  /\ g[2] > 0
            /\ IF Sf = 0 THEN g = <<0, 1>>
               ELSE g[1] * Sf * nl = 100 * (Sl * nf - Sf * nl) * g[2]

\* The first month's mean is 0 and the last month's is not.
C5_Witness ==
    /\ Analyzed
    /\ SumAt(FirstMonthRows) = 0
    /\ SumAt(LastMonthRows) > 0
    /\ insights.overall_growth = <<0, 1>>

\* The state s ranks before the state t: by mean, higher first when
\* descending and lower first otherwise, then by name ascending.
RanksBefore(s, t, descending) ==
    LET Ss == SumAt(RowsOfState(s))
        St == SumAt(RowsOfState(t))
        ns == Cardinality(RowsOfState(s))
        nt == Cardinality(RowsOfState(t))
    IN  \/ IF descending THEN Ss * nt > St * ns ELSE Ss * nt < St * ns
        \/ Ss * nt = St * ns /\ StrLess(s, t)

\* tbl is the first min(5, number of states) states in that ranking, in that
\* order, each with its mean and its number of rows.
IsRanking(tbl, descending) ==
    LET all == StatesOf(Table)
        listed == {tbl[k].state : k \in 1..Len(tbl)}
    IN  /\ Len(tbl) = IF Cardinality(all) < 5 THEN Cardinality(all) ELSE 5
        /\ \A k \in 1..Len(tbl) :
              /\ tbl[k].state \in all
              /\ tbl[k].count = Cardinality(RowsOfState(tbl[k].state))
              /\ tbl[k].mean[2] > 0
              /\ tbl[k].mean[1] * tbl[k].count = SumAt(RowsOfState(tbl[k].state)) * tbl[k].mean[2]
        /\ \A k \in 1..Len(tbl) : \A l \in 1..Len(tbl) :
              k < l => RanksBefore(tbl[k].state, tbl[l].state, descending)
        /\ \A s \in all \ listed : \A k \in 1..Len(tbl) :
              RanksBefore(tbl[k].state, s, descending)

\* C9: top_5_states is the min(5, number of states) states of highest mean in
\* descending order of mean, bottom_5_states those of lowest mean in ascending
\* order, each row with the state's mean and row count, equal means ordered
\* and selected by state name ascending.
C9_TopAndBottomFive ==
    Analyzed =>
        /\ IsRanking(insights.top_5_states, TRUE)
        /\ IsRanking(insights.bottom_5_states, FALSE)

\* More than 5 states, and a state left out of the top 5 has the mean of the
\* last state listed.
C9_Witness ==
    /\ Analyzed
    /\ Cardinality(StatesOf(Table)) > 5
    /\ \E s \in StatesOf(Table) :
          /\ \A k \in 1..5 : insights.top_5_states[k].state # s
          /\ insights.top_5_states[5].mean
                = Frac(SumAt(RowsOfState(s)), Cardinality(RowsOfState(s)))

\* C10 as claimed: after analyze_data returns, the DataFrame passed to it has
\* the rows, the row order and the columns it had before the call.
C10_TableUnchanged ==
    Analyzed => df = loaded

====
